---- MODULE Spec2Model ----
(***************************************************************************)
(* Coupled online linear regression (notebook "Simple coupled linear       *)
(* regression"): the gradient coupled_gradient and the SGD loop that       *)
(* drives it.  Reals are modelled as exact rationals <<n, d>> in lowest    *)
(* terms with d > 0; vectors are sequences of rationals.  Python indices   *)
(* are 0-based, the sequences here are 1-based (sample i of the model is   *)
(* column i-1 of X).                                                       *)
(***************************************************************************)
EXTENDS Integers, Sequences, FiniteSets

\* K, X, c, y                  the data: dimension, feature columns, task ids, labels
\* reg, coupling_reg,
\* learning_rate, num_iter     the learning parameters
\* w                           the 2K weights, w_0 in the lower half, w_1 in the upper
\* iter, idx, pos, i           the loop variables: epoch, its order, indices consumed, sample
\* cum_err, grad, err          the running squared error and the last (grad, err) pair
\* printed                     the 'After iteration' lines, as (iter, cum_err) records
\* caught                      the sample indices printed by the except branch
\* orders                      the orders drawn so far, one per epoch
\* processed                   the sample indices taken so far, one sequence per epoch
\* pc                          "for_iter", "for_i", "done", or "raised" (an exception left the loop)
\* sn                          the last call of a snappy wrapper: its argument, the statuses
\*                             the native calls returned, its buffer, and how it ended
VARIABLES K, X, c, y, reg, coupling_reg, learning_rate, num_iter,
          w, iter, cum_err, idx, pos, i, grad, err, printed, caught,
          orders, processed, pc, sn

vars == <<K, X, c, y, reg, coupling_reg, learning_rate, num_iter,
          w, iter, cum_err, idx, pos, i, grad, err, printed, caught,
          orders, processed, pc, sn>>

data == <<K, X, c, y, reg, coupling_reg, learning_rate, num_iter>>

(* ------------------------------ bounds -------------------------------- *)
MaxK == 2
MaxN == 2
MaxEpochs == 2
MaxSteps == 4
MaxTenthN == 1
MaxTenthEpochs == 1
MaxLongEpochs == 11
MaxPullEpochs == 1
MaxLen == 2
MaxByte == 1

(* ------------------------- exact real arithmetic ----------------------- *)
Abs(n) == IF n < 0 THEN -n ELSE n

RECURSIVE GCD(_, _)
GCD(a, b) == IF b = 0 THEN a ELSE GCD(b, a % b)

Rat(n, d) == LET g == GCD(Abs(n), d) IN <<n \div g, d \div g>>

RInt(n) == <<n, 1>>

RZero == RInt(0)

RAdd(a, b) ==
  LET g == GCD(a[2], b[2])
      l == (a[2] \div g) * b[2]
  IN Rat(a[1] * (l \div a[2]) + b[1] * (l \div b[2]), l)

RNeg(a) == <<-a[1], a[2]>>

RSub(a, b) == RAdd(a, RNeg(b))

RMul(a, b) ==
  LET g1 == GCD(Abs(a[1]), b[2])
      g2 == GCD(Abs(b[1]), a[2])
  IN IF a[1] = 0 \/ b[1] = 0 THEN RZero
     ELSE <<(a[1] \div g1) * (b[1] \div g2), (a[2] \div g2) * (b[2] \div g1)>>

RAbs(a) == <<Abs(a[1]), a[2]>>

RLess(a, b) == a[1] * b[2] < b[1] * a[2]

RLeq(a, b) == a[1] * b[2] <= b[1] * a[2]

(* ------------------------------ vectors -------------------------------- *)
\* an array holds its entries as values: the entries of v, computed once
Array(v) == SubSeq(v, 1, Len(v))

Zeros(n) == [m \in 1..n |-> RZero]

VAdd(u, v) == Array([m \in 1..Len(u) |-> RAdd(u[m], v[m])])

VSub(u, v) == Array([m \in 1..Len(u) |-> RSub(u[m], v[m])])

VScale(r, v) == Array([m \in 1..Len(v) |-> RMul(r, v[m])])

RECURSIVE DotFrom(_, _, _)
DotFrom(u, v, m) ==
  IF m > Len(u) THEN RZero ELSE RAdd(RMul(u[m], v[m]), DotFrom(u, v, m + 1))

Dot(u, v) == DotFrom(u, v, 1)

(* ------------------------- coupled_gradient ---------------------------- *)
\* w[:k/2] and w[k/2:]
LowerHalf(v) == SubSeq(v, 1, Len(v) \div 2)

UpperHalf(v) == SubSeq(v, (Len(v) \div 2) + 1, Len(v))

\* if c==0: w_seg = w[:k/2] else: w_seg = w[k/2:]
w_seg(cc, wt) == IF cc = 0 THEN LowerHalf(wt) ELSE UpperHalf(wt)

\* pred = x.dot(w_seg)
pred(x, cc, wt) == Dot(x, w_seg(cc, wt))

\* x.dot(w_seg) raises ValueError when the shapes are not aligned
coupled_gradient_raises(x, cc, wt) == Len(x) # Len(w_seg(cc, wt))

couplingNoSign(cc, wt) == VSub(LowerHalf(wt), UpperHalf(wt))

couplingReversed(cc, wt) ==
  VScale(RInt(1 - 2 * cc), VSub(UpperHalf(wt), LowerHalf(wt)))

\* coupling = (w[:k/2] - w[k/2:]) * (1 - 2*c)
coupling(cc, wt) == VScale(RInt(1 - 2 * cc), VSub(LowerHalf(wt), UpperHalf(wt)))

\* a zero vector of length k with v assigned to the slice chosen by c==0 / else
SegAssign(k, cc, v) ==
  [m \in 1..k |->
     IF cc = 0
       THEN (IF m <= k \div 2 THEN v[m] ELSE RZero)
       ELSE (IF m > k \div 2 THEN v[m - (k \div 2)] ELSE RZero)]

error_grad_dense(k, cc, e, x) == VScale(e, x \o x)

\* error_grad = np.zeros(k); error_grad[seg] = err*x
error_grad(k, cc, e, x) == SegAssign(k, cc, VScale(e, x))

reg_term_joint(k, cc, ws) == ws \o ws

\* reg_term = np.zeros(k); reg_term[seg] = w_seg
reg_term(k, cc, ws) == SegAssign(k, cc, ws)

coupling_term_joint(k, cc, cpl) == cpl \o cpl

\* coupling_term = np.zeros(k); coupling_term[seg] = coupling
coupling_term(k, cc, cpl) == SegAssign(k, cc, cpl)

\* the (grad, err) pair returned for a sample whose shapes are aligned
coupled_gradient(x, cc, wt, yy, rg, cr) ==
  LET k == Len(wt)
      ws == w_seg(cc, wt)
      e == RSub(pred(x, cc, wt), yy)
  IN [grad |-> VAdd(VAdd(error_grad(k, cc, e, x),
                         VScale(rg, reg_term(k, cc, ws))),
                    VScale(cr, coupling_term(k, cc, coupling(cc, wt)))),
      err |-> e]

(* ---------- coupled_gradient statement by statement, on arrays --------- *)
\* a slice a[lo:hi] of the array named base: a view, not a copy
View(base, lo, hi) == [base |-> base, lo |-> lo, hi |-> hi]

\* the slice that `if c==0: a[:k/2] ... else: a[k/2:]` selects of array a
SegView(a, cc, k) ==
  IF cc = 0 THEN View(a, 1, k \div 2) ELSE View(a, (k \div 2) + 1, k)

\* reading through a view
Load(h, v) == SubSeq(h[v.base], v.lo, v.hi)

\* a[lo:hi] = vals: writes the array the view is a slice of
Store(h, v, vals) ==
  [h EXCEPT ![v.base] =
     [m \in 1..Len(@) |-> IF m \in v.lo..v.hi THEN vals[m - v.lo + 1] ELSE @[m]]]

error_grad_target_w == "w"

\* the array that `error_grad[...] = err*x` assigns into
error_grad_target == "error_grad"

\* the arrays after a call on the arrays w and x, and the pair returned
coupled_gradient_call(x, cc, wt, yy, rg, cr) ==
  LET k == Len(wt)
      h0 == [w |-> wt, x |-> x, error_grad |-> Zeros(k),
             reg_term |-> Zeros(k), coupling_term |-> Zeros(k)]
      w_seg_view == SegView("w", cc, k)
      e == RSub(Dot(Load(h0, View("x", 1, Len(x))), Load(h0, w_seg_view)), yy)
      cpl == VScale(RInt(1 - 2 * cc),
                    VSub(Load(h0, View("w", 1, k \div 2)),
                         Load(h0, View("w", (k \div 2) + 1, k))))
      h1 == Store(h0, SegView(error_grad_target, cc, k), VScale(e, h0.x))
      h2 == Store(h1, SegView("reg_term", cc, k), Load(h1, w_seg_view))
      h3 == Store(h2, SegView("coupling_term", cc, k), cpl)
  IN [w |-> h3.w, x |-> h3.x,
      grad |-> VAdd(VAdd(h3.error_grad, VScale(rg, h3.reg_term)),
                    VScale(cr, h3.coupling_term)),
      err |-> e]

(* ------------------------------ the loop ------------------------------- *)
\* a name that is not bound yet (grad, err, idx before their first assignment)
NoValue == <<>>

ReportInterval == 10

SGDUpdateDouble(wt, lr, g) == VSub(wt, VScale(RAdd(lr, lr), g))

SGDUpdateAscent(wt, lr, g) == VAdd(wt, VScale(lr, g))

\* w += -learning_rate * grad
SGDUpdate(wt, lr, g) == VAdd(wt, VScale(RNeg(lr), g))

RangeHasNextInclusive(it, n) == it + 1 <= n

RangeStopsAfterFirst(it, n) == it + 1 < n /\ it < 0

\* for iter in range(num_iter): is there a next value after `it`
RangeHasNext(it, n) == it + 1 < n

ShouldReportFirstOnly(it) == it = 0

\* if (iter % 10) == 0
ShouldReport(it) == it % ReportInterval = 0

NextIndexInOrder(order, p) == p + 1

\* for i in idx: the index taken after p indices have been consumed
NextIndex(order, p) == order[p + 1]

permutationWithRepeats(n) == [1..n -> 1..n]

\* np.random.permutation(n): every order of the sample indices
permutation(n) ==
  {p \in [1..n -> 1..n] : \A a, b \in 1..n : p[a] = p[b] => a = b}

(* -------------------------- the snappy wrappers ------------------------ *)
\* byte strings, as sequences of byte values
ByteStrings == UNION {[1..n -> 0..MaxByte] : n \in 0..MaxLen}

\* snappy_status: an enum with the values 0, 1, 2
StatusCodes == {0, 1, 2}

SNAPPY_OK == 0

\* the native snappy_max_compressed_length, used without a wrapper
snappy_max_compressed_length(input_l) == 32 + input_l + input_l \div 6

\* create_string_buffer("\000" * buf_size): buf_size NULs and the terminator
create_string_buffer(buf_size) == [m \in 1..(buf_size + 1) |-> 0]

\* the buffer after the native function has written `written` at its start
NativeWrite(buf, written) ==
  [m \in 1..Len(buf) |-> IF m <= Len(written) THEN written[m] ELSE buf[m]]

\* no wrapper has been called yet
SnIdle ==
  [op |-> "none", arg |-> <<>>, statuses |-> <<>>, outcome |-> "none",
   value |-> <<>>, buf |-> <<>>, length |-> 0, buf_size |-> 0]

\* snappy_compress(input_data), the native call returning sn_code and, when
\* it succeeds, writing `written` into output_buf and its length into o_s
snappy_compress(input_data, sn_code, written) ==
  LET input_l == Len(input_data)
      buf_size == snappy_max_compressed_length(input_l)
      output_buf == IF sn_code = SNAPPY_OK
                      THEN NativeWrite(create_string_buffer(buf_size), written)
                      ELSE create_string_buffer(buf_size)
      o_s == IF sn_code = SNAPPY_OK THEN Len(written) ELSE buf_size
  IN [op |-> "snappy_compress", arg |-> input_data, statuses |-> <<sn_code>>,
      outcome |-> IF sn_code # SNAPPY_OK THEN "raised" ELSE "returned",
      value |-> IF sn_code # SNAPPY_OK THEN <<>> ELSE SubSeq(output_buf, 1, o_s),
      buf |-> output_buf, length |-> o_s, buf_size |-> buf_size]

\* snappy_uncompressed_length(compressed), the native call returning len_code
\* and, when it succeeds, writing n into out; out = c_int() starts as 0
snappy_uncompressed_length(compressed, len_code, n) ==
  LET out == IF len_code = SNAPPY_OK THEN n ELSE 0
  IN [op |-> "snappy_uncompressed_length", arg |-> compressed,
      statuses |-> <<len_code>>, outcome |-> "returned", value |-> out,
      buf |-> <<>>, length |-> out, buf_size |-> 0]

\* snappy_uncompress(compressed): the length lookup above, then the native
\* call returning sn_code and, when it succeeds, writing `written` into
\* out_buf and its length into out_l
snappy_uncompress(compressed, len_code, n, sn_code, written) ==
  LET buf_size == snappy_uncompressed_length(compressed, len_code, n).value
      out_buf == IF sn_code = SNAPPY_OK
                   THEN NativeWrite(create_string_buffer(buf_size), written)
                   ELSE create_string_buffer(buf_size)
      out_l == IF sn_code = SNAPPY_OK THEN Len(written) ELSE buf_size
  IN [op |-> "snappy_uncompress", arg |-> compressed,
      statuses |-> <<len_code, sn_code>>,
      outcome |-> IF sn_code # SNAPPY_OK THEN "raised" ELSE "returned",
      value |-> IF sn_code # SNAPPY_OK THEN <<>> ELSE SubSeq(out_buf, 1, out_l),
      buf |-> out_buf, length |-> out_l, buf_size |-> buf_size]

(* ------------------------------- inputs -------------------------------- *)
\* feature vectors of length k: the first basis vector, and ones at both ends
FeatVecs(k) ==
  {[m \in 1..k |-> IF m = 1 THEN RInt(1) ELSE RInt(0)],
   [m \in 1..k |-> IF m = 1 \/ m = k THEN RInt(1) ELSE RInt(0)]}

\* feature vectors of any length up to MaxK + 1 (shape not tied to K)
FeatVecsAny == UNION {FeatVecs(k) : k \in 1..(MaxK + 1)}

Tasks == {0, 1}

TasksAny == {0, 1, 2}

Half == <<1, 2>>

Tenth == <<1, 10>>

Start(k, Xs, cs, ys, rg, cr, lr, ne) ==
  /\ K = k /\ X = Xs /\ c = cs /\ y = ys
  /\ reg = rg /\ coupling_reg = cr /\ learning_rate = lr /\ num_iter = ne
  /\ w = Zeros(2 * k)
  /\ iter = -1
  /\ cum_err = RZero
  /\ idx = NoValue
  /\ pos = 0
  /\ i = 0
  /\ grad = NoValue
  /\ err = NoValue
  /\ printed = <<>>
  /\ caught = <<>>
  /\ orders = <<>>
  /\ processed = <<>>
  /\ pc = "for_iter"
  /\ sn = SnIdle

\* learning_rate 1/2, reg 1, up to MaxN samples and MaxEpochs epochs, and
\* no more than MaxSteps sample steps in a run
InitHalf ==
  \E k \in {1, MaxK}, n \in 0..MaxN, ne \in 0..MaxEpochs :
    \E Xs \in [1..n -> FeatVecs(k)], cs \in [1..n -> Tasks],
       cr \in {RInt(0), RInt(1)} :
      /\ n * ne <= MaxSteps
      /\ Start(k, Xs, cs, [m \in 1..n |-> RInt(5)], RInt(1), cr, Half, ne)

\* learning_rate 1/10, short runs
InitTenth ==
  \E k \in 1..MaxK, n \in 0..MaxTenthN, ne \in 0..MaxTenthEpochs :
    \E Xs \in [1..n -> FeatVecs(k)], cs \in [1..n -> Tasks],
       ys \in [1..n -> {RInt(5), RInt(-1)}],
       rg \in {RInt(0), RInt(1)}, cr \in {RInt(0), RInt(1)} :
      Start(k, Xs, cs, ys, rg, cr, Tenth, ne)

\* one sample, learning_rate 1, many epochs
InitLong ==
  \E ne \in 0..MaxLongEpochs :
    \E Xs \in [1..1 -> FeatVecs(1)], cs \in [1..1 -> Tasks],
       ys \in [1..1 -> {RInt(5), RInt(-1)}], cr \in {RInt(0), RInt(1)} :
      Start(1, Xs, cs, ys, RInt(0), cr, RInt(1), ne)

\* three samples, reg 0: one with label 5, and for either task one with zero
\* features and label 0, whose error is 0 whatever the weights are
InitPull ==
  \E k \in {1, MaxK}, ne \in 0..MaxPullEpochs, ta \in Tasks,
     cr \in {Rat(1, 2), RInt(1), RInt(2), RInt(3)} :
    \E x1 \in {[m \in 1..k |-> RInt(1)]} :
      Start(k, <<x1, Zeros(k), Zeros(k)>>, <<ta, 0, 1>>,
            <<RInt(5), RZero, RZero>>, RZero, cr, Half, ne)

Init == InitHalf \/ InitTenth \/ InitLong \/ InitPull

\* samples whose task id or feature length need not be valid
InitAny ==
  \E k \in 1..MaxK, n \in 1..MaxN, ne \in 1..MaxEpochs :
    \E Xs \in [1..n -> FeatVecsAny], cs \in [1..n -> TasksAny],
       cr \in {RInt(0), RInt(1)} :
      Start(k, Xs, cs, [m \in 1..n |-> RInt(5)], RInt(0), cr, Half, ne)

(* ------------------------------- actions ------------------------------- *)
cum_err_kept == cum_err

\* cum_err = 0
cum_err_reset == RZero

\* for iter in range(num_iter): cum_err = 0; idx = np.random.permutation(len(y))
StartEpoch ==
  /\ pc = "for_iter"
  /\ RangeHasNext(iter, num_iter)
  /\ iter' = iter + 1
  /\ cum_err' = cum_err_reset
  /\ idx' \in permutation(Len(y))
  /\ orders' = Append(orders, idx')
  /\ processed' = Append(processed, <<>>)
  /\ pos' = 0
  /\ pc' = "for_i"
  /\ UNCHANGED <<data, w, i, grad, err, printed, caught, sn>>

\* range(num_iter) is exhausted: the cell goes on to its final prints
Finish ==
  /\ pc = "for_iter"
  /\ ~RangeHasNext(iter, num_iter)
  /\ pc' = "done"
  /\ UNCHANGED <<data, w, iter, cum_err, idx, pos, i, grad, err, printed,
                 caught, orders, processed, sn>>

\* one pass of the body of `for i in idx`
SampleStep ==
  /\ pc = "for_i"
  /\ pos < Len(idx)
  /\ LET j == NextIndex(idx, pos)
         raises == coupled_gradient_raises(X[j], c[j], w)
     IN \E r \in {IF raises
                     THEN [grad |-> grad, err |-> err]
                     ELSE coupled_gradient(X[j], c[j], w, y[j], reg, coupling_reg)} :
          /\ i' = j
          /\ pos' = pos + 1
          /\ processed' = [processed EXCEPT ![Len(processed)] = Append(@, j)]
          /\ grad' = r.grad
          /\ err' = r.err
          /\ caught' = IF raises THEN Append(caught, j) ELSE caught
          /\ IF r.grad = NoValue
               THEN /\ pc' = "raised"
                    /\ UNCHANGED <<w, cum_err>>
               ELSE /\ w' = SGDUpdate(w, learning_rate, r.grad)
                    /\ cum_err' = RAdd(cum_err, RMul(r.err, r.err))
                    /\ pc' = pc
  /\ UNCHANGED <<data, iter, idx, printed, orders, sn>>

\* idx is exhausted: if (iter % 10) == 0: print 'After iteration ...'
EndEpoch ==
  /\ pc = "for_i"
  /\ pos = Len(idx)
  /\ printed' = IF ShouldReport(iter)
                  THEN Append(printed, [iter |-> iter, cum_err |-> cum_err])
                  ELSE printed
  /\ pc' = "for_iter"
  /\ UNCHANGED <<data, w, iter, cum_err, idx, pos, i, grad, err, caught, orders,
                 processed, sn>>

Next == StartEpoch \/ Finish \/ SampleStep \/ EndEpoch

Spec == Init /\ [][Next]_vars

SpecAny == InitAny /\ [][Next]_vars

(* ----------------------- calls of the snappy wrappers ------------------- *)
\* the variables of the training cells
loop_vars == <<data, w, iter, cum_err, idx, pos, i, grad, err, printed, caught,
               orders, processed, pc>>

\* the snappy cells run before any training cell, on no training data
InitSnappy ==
  Start(1, <<>>, <<>>, <<>>, RZero, RZero, Half, 0)

\* a call snappy_compress(input_data); the library returns any status and,
\* with SNAPPY_OK, has written any output that fits the buffer
CallCompress ==
  \E input_data \in ByteStrings, sn_code \in StatusCodes, written \in ByteStrings :
    /\ sn_code # SNAPPY_OK => written = <<>>
    /\ Len(written) <= snappy_max_compressed_length(Len(input_data))
    /\ sn' = snappy_compress(input_data, sn_code, written)
    /\ UNCHANGED loop_vars

\* a call snappy_uncompressed_length(compressed); the library returns any
\* status and, with SNAPPY_OK, has written a length
CallUncompressedLength ==
  \E compressed \in ByteStrings, len_code \in StatusCodes, n \in 0..MaxLen :
    /\ len_code # SNAPPY_OK => n = 0
    /\ sn' = snappy_uncompressed_length(compressed, len_code, n)
    /\ UNCHANGED loop_vars

\* a call snappy_uncompress(compressed); the library reads the same length
\* header in both native calls, so it does not uncompress what it could not
\* size, and it writes no more than the length it was given
CallUncompress ==
  \E compressed \in ByteStrings, len_code \in StatusCodes, n \in 0..MaxLen,
     sn_code \in StatusCodes, written \in ByteStrings :
    /\ len_code # SNAPPY_OK => (n = 0 /\ sn_code # SNAPPY_OK)
    /\ sn_code # SNAPPY_OK => written = <<>>
    /\ sn_code = SNAPPY_OK => Len(written) <= n
    /\ sn' = snappy_uncompress(compressed, len_code, n, sn_code, written)
    /\ UNCHANGED loop_vars

NextSnappy == CallCompress \/ CallUncompressedLength \/ CallUncompress

SpecSnappy == InitSnappy /\ [][NextSnappy]_vars

(* ------------------------ the independent trainer ----------------------- *)
basic_gradient_no_reg(x, wt, yy, rg) ==
  LET e == RSub(Dot(x, wt), yy)
  IN [grad |-> VScale(e, x), err |-> e]

\* pred = x.dot(w); err = pred - y; grad = err * x + reg * w
basic_gradient(x, wt, yy, rg) ==
  LET e == RSub(Dot(x, wt), yy)
  IN [grad |-> VAdd(VScale(e, x), VScale(rg, wt)), err |-> e]

\* for i in rng: grad, err = basic_gradient(X[:,i], w, y[i], reg);
\* w += -learning_rate * grad; cum_err += err**2     (from position p of rng)
RECURSIVE independent_epoch(_, _, _)
independent_epoch(st, rng, p) ==
  IF p > Len(rng) THEN st
  ELSE LET r == basic_gradient(X[rng[p]], st.w, y[rng[p]], reg)
       IN independent_epoch([w |-> SGDUpdate(st.w, learning_rate, r.grad),
                             cum_err |-> RAdd(st.cum_err, RMul(r.err, r.err))],
                            rng, p + 1)

\* w = np.zeros(K); for iter in range(...): cum_err = 0; for i in ...
\* with the samples of epoch e taken in the order rngs[e]   (from epoch e)
RECURSIVE independent_loop(_, _, _)
independent_loop(wt, rngs, e) ==
  IF e > Len(rngs) THEN wt
  ELSE independent_loop(
         independent_epoch([w |-> wt, cum_err |-> RZero], rngs[e], 1).w,
         rngs, e + 1)

(* ------------------- the loop as a function of its orders --------------- *)
\* the inner loop over the order `ord`, from position p, on aligned samples
RECURSIVE EpochFold(_, _, _, _, _, _)
EpochFold(Xs, cs, ys, st, ord, p) ==
  IF p > Len(ord) THEN st
  ELSE LET j == ord[p]
           r == coupled_gradient(Xs[j], cs[j], st.w, ys[j], reg, coupling_reg)
       IN EpochFold(Xs, cs, ys,
                    [w |-> SGDUpdate(st.w, learning_rate, r.grad),
                     cum_err |-> RAdd(st.cum_err, RMul(r.err, r.err))],
                    ord, p + 1)

\* the outer loop run with the per-epoch orders `ords`, from epoch e
RECURSIVE TrainFold(_, _, _, _, _, _, _)
TrainFold(Xs, cs, ys, wt, losses, ords, e) ==
  IF e >= Len(ords) THEN [w |-> wt, printed |-> losses]
  ELSE LET st == EpochFold(Xs, cs, ys, [w |-> wt, cum_err |-> RZero], ords[e + 1], 1)
       IN TrainFold(Xs, cs, ys, st.w,
                    IF ShouldReport(e)
                      THEN Append(losses, [iter |-> e, cum_err |-> st.cum_err])
                      ELSE losses,
                    ords, e + 1)

(* ------------------------------- claims -------------------------------- *)

\* C1 (segment sparsity): the gradient returned for a sample of task t is
\* exactly zero at every index outside the segment of t, that is at indices
\* K+1..2K when t = 0 and at indices 1..K when t = 1.
SegmentSparsity ==
  (i # 0 /\ grad # NoValue) =>
    \A m \in 1..Len(grad) :
      (IF c[i] = 0 THEN m > K ELSE m <= K) => grad[m] = RZero

\* a task-1 sample has just produced a gradient that is nonzero in its segment
SegmentSparsityWitness ==
  /\ i # 0 /\ grad # NoValue /\ c[i] = 1 /\ K = 2
  /\ \E m \in (K + 1)..(2 * K) : grad[m] # RZero

\* C2 (gradient value): for the sample (x, y, c) of a step, err is
\* dot(x, w_active) - y and on the active segment the gradient is, entry by
\* entry, err * x + reg * w_active + coupling_reg * (w0 - w1) * s, with
\* s = +1 for c = 0 and s = -1 for c = 1, all taken on the weights before
\* the step.
GradientValue ==
  [][(pc = "for_i" /\ pos' = pos + 1) =>
       LET x == X[i']
           off == IF c[i'] = 0 THEN 0 ELSE K
           s == IF c[i'] = 0 THEN 1 ELSE -1
           w_active == [m \in 1..K |-> w[off + m]]
       IN /\ err' = RSub(Dot(x, w_active), y[i'])
          /\ \A m \in 1..K :
               grad'[off + m] =
                 RAdd(RAdd(RMul(err', x[m]), RMul(reg, w_active[m])),
                      RMul(coupling_reg, RMul(RInt(s), RSub(w[m], w[K + m]))))]_vars

\* a task-1 step taken with both regularisers on, after the segments parted
GradientValueWitness ==
  /\ pos >= 2 /\ i # 0 /\ c[i] = 1
  /\ reg = RInt(1) /\ coupling_reg = RInt(1)
  /\ LowerHalf(w) # UpperHalf(w)
  /\ \E m \in (K + 1)..(2 * K) : grad[m] # RZero

\* the inputs of the concrete scenario
Scenario ==
  /\ K = 2
  /\ X = <<(<<RInt(1), RInt(0)>>)>>
  /\ c = <<0>>
  /\ y = <<RInt(5)>>
  /\ reg = RZero /\ coupling_reg = RZero
  /\ learning_rate = Tenth

\* C3 (concrete scenario): K = 2, zero initial weights, reg = 0,
\* coupling_reg = 0, learning_rate = 0.1, the one sample ([1,0], task 0,
\* label 5): prediction 0, error -5, gradient [-5,0,0,0] and, after the one
\* update, weights [0.5,0,0,0].
ConcreteScenario ==
  (Scenario /\ iter = 0 /\ pos = 1) =>
    /\ pred(X[1], c[1], Zeros(2 * K)) = RZero
    /\ err = RInt(-5)
    /\ grad = <<RInt(-5), RZero, RZero, RZero>>
    /\ w = <<Half, RZero, RZero, RZero>>

\* the scenario has run to the end of its one epoch
ConcreteScenarioWitness == Scenario /\ iter = 0 /\ pos = 1 /\ pc = "done"

\* C4 (sequential SGD step): every step computes its gradient from the
\* weights the preceding update left (the zero initial weights at the first
\* step of the first epoch) and leaves weights_before - learning_rate *
\* gradient, with no other term.
SequentialSGD ==
  [][(pc = "for_i" /\ pos' = pos + 1) =>
       /\ (iter = 0 /\ pos = 0) => w = Zeros(2 * K)
       /\ grad' = coupled_gradient(X[i'], c[i'], w, y[i'], reg, coupling_reg).grad
       /\ w' = VSub(w, VScale(learning_rate, grad'))]_vars

\* a later epoch is under way on weights that earlier steps have moved
SequentialSGDWitness ==
  /\ pc = "for_i" /\ iter >= 1 /\ pos >= 1
  /\ w # Zeros(2 * K) /\ grad # Zeros(2 * K)

\* C5 (invalid task id): a sample whose task_id is neither 0 nor 1 makes the
\* gradient computation fail; no gradient is returned for it and the run is
\* over.
InvalidTaskRejected ==
  (i # 0 /\ c[i] \notin {0, 1}) => pc = "raised"

\* C6 (fail fast): when the gradient computation fails for a sample the run
\* is aborted: no weight update is applied and nothing is added to the
\* cumulative squared error.
FailFastOnBadSample ==
  [][(pc = "for_i" /\ pos' = pos + 1
        /\ coupled_gradient_raises(X[i'], c[i'], w)) =>
       (pc' = "raised" /\ w' = w /\ cum_err' = cum_err)]_vars

\* the task-0 samples, in input order, and an order restricted to them
Task0Idx == SelectSeq([m \in 1..Len(y) |-> m], LAMBDA m : c[m] = 0)

Restrict(v) == [m \in 1..Len(Task0Idx) |-> v[Task0Idx[m]]]

Rank(j) == Cardinality({m \in 1..j : c[m] = 0})

RestrictOrder(ord) ==
  LET f == SelectSeq(ord, LAMBDA j : c[j] = 0)
  IN [m \in 1..Len(f) |-> Rank(f[m])]

Task0Only ==
  TrainFold(Restrict(X), Restrict(c), Restrict(y), Zeros(2 * K), <<>>,
            [e \in 1..Len(orders) |-> RestrictOrder(orders[e])], 0)

\* C7 (decoupling): with coupling_reg = 0 the final w0 of the run on the full
\* two-task data equals the final w0 of the run on the task-0 samples alone,
\* taken in the same relative order.
Decoupling ==
  (coupling_reg = RZero /\ pc = "done") =>
    LowerHalf(w) = LowerHalf(Task0Only.w)

\* both tasks were trained, with L2 on, and both segments have moved
DecouplingWitness ==
  /\ coupling_reg = RZero /\ reg = RInt(1) /\ pc = "done"
  /\ \E a, b \in 1..Len(c) : c[a] = 0 /\ c[b] = 1
  /\ LowerHalf(w) # Zeros(K) /\ UpperHalf(w) # Zeros(K)

\* C8 (no-op): with num_iter = 0 no gradient is computed, no update is made,
\* the final weights are the initial (zero) weights and nothing is reported.
NoOp ==
  num_iter = 0 =>
    /\ w = Zeros(2 * K)
    /\ printed = <<>>
    /\ grad = NoValue /\ err = NoValue /\ i = 0
    /\ orders = <<>>
    /\ pc \in {"for_iter", "done"}

\* a run of zero epochs over a non-empty data set has ended
NoOpWitness == num_iter = 0 /\ pc = "done" /\ Len(y) >= 1

\* the order range(len(y)), once per epoch
InputOrders == [e \in 1..num_iter |-> [m \in 1..Len(y) |-> m]]

\* C9 as stated (determinism): the final weights and the reported losses are
\* fixed by the samples, the initial weights and the hyperparameters alone.
DeterministicResult ==
  pc = "done" =>
    [w |-> w, printed |-> printed]
      = TrainFold(X, c, y, Zeros(2 * K), <<>>, InputOrders, 0)

\* C9 as amended: the final weights and the reported losses are fixed by the
\* inputs together with the orders drawn in the epochs; two runs that draw
\* the same orders end alike.
SameOrdersSameResult ==
  pc = "done" =>
    [w |-> w, printed |-> printed]
      = TrainFold(X, c, y, Zeros(2 * K), <<>>, orders, 0)

\* a run of two epochs that drew two different orders
SameOrdersSameResultWitness ==
  /\ pc = "done" /\ Len(orders) = 2 /\ orders[1] # orders[2]
  /\ w # Zeros(2 * K) /\ printed # <<>>

\* the epochs e < n with e mod report_interval = 0, in increasing order
Reportable(n) ==
  SelectSeq([m \in 1..n |-> m - 1], LAMBDA e : e % ReportInterval = 0)

\* C10 (reporting schedule): the reported epochs are exactly the epochs e
\* with e mod report_interval = 0 among those fully processed, in increasing
\* order; the entry of an epoch appears only after all its samples, and at
\* the end all num_iter epochs have been processed.
ReportingSchedule ==
  /\ [m \in 1..Len(printed) |-> printed[m].iter]
       = Reportable(IF pc = "for_i" THEN iter ELSE iter + 1)
  /\ pc = "done" => iter + 1 = num_iter

\* a run long enough to report twice and to skip epochs in between
ReportingScheduleWitness ==
  /\ pc = "done" /\ num_iter > ReportInterval
  /\ Len(printed) = 2 /\ printed[2].iter = ReportInterval

\* the number of sample steps taken so far
RECURSIVE TotalLen(_)
TotalLen(ss) == IF ss = <<>> THEN 0 ELSE Len(Head(ss)) + TotalLen(Tail(ss))

\* C11 (fixed-length termination): the run never takes more than
\* num_iter * N sample steps and is over only after exactly that many (no
\* early stop); the steps taken are the iter full epochs before the current
\* one plus the pos steps of the current one; and whatever values the
\* weights and errors take the run is never aborted and, until it is over,
\* always has a next step (an epoch to start, a sample of idx to take, an
\* epoch to end, or the loop to leave).
FixedLengthTermination ==
  /\ TotalLen(processed) <= num_iter * Len(y)
  /\ pc = "done" => TotalLen(processed) = num_iter * Len(y)
  /\ iter >= 0 => TotalLen(processed) = iter * Len(y) + pos
  /\ pc # "raised"
  /\ pc # "done" =>
       \/ ENABLED StartEpoch
       \/ pc = "for_i" /\ pos < Len(idx) /\ NextIndex(idx, pos) \in 1..Len(y)
       \/ ENABLED EndEpoch
       \/ ENABLED Finish

\* a run of several epochs over several samples has ended on moved weights
FixedLengthTerminationWitness ==
  /\ pc = "done" /\ num_iter >= 2 /\ Len(y) >= 2
  /\ TotalLen(processed) = num_iter * Len(y)
  /\ w # Zeros(2 * K)

\* the weights at the start of epoch e (counted from 0) of this run
EpochStartWeights(e) ==
  TrainFold(X, c, y, Zeros(2 * K), <<>>, SubSeq(orders, 1, e), 0).w

\* the sum of error squared over the samples `taken`, from position p, each
\* error computed from the weights before that sample's update
RECURSIVE SquaredErrors(_, _, _)
SquaredErrors(wt, taken, p) ==
  IF p > Len(taken) THEN RZero
  ELSE LET j == taken[p]
           e == RSub(pred(X[j], c[j], wt), y[j])
           g == coupled_gradient(X[j], c[j], wt, y[j], reg, coupling_reg).grad
       IN RAdd(RMul(e, e),
               SquaredErrors(SGDUpdate(wt, learning_rate, g), taken, p + 1))

\* C12 (per-epoch loss value): within and after epoch e the cumulative
\* squared error is the sum of error squared over the samples taken in epoch
\* e only, each error computed from the weights before that sample's update,
\* and the value reported for epoch e is that sum over all of the epoch's
\* samples; nothing of an earlier epoch is carried into it.
PerEpochLoss ==
  /\ iter >= 0 =>
       cum_err = SquaredErrors(EpochStartWeights(iter), processed[iter + 1], 1)
  /\ \A m \in 1..Len(printed) :
       LET e == printed[m].iter
       IN /\ Len(processed[e + 1]) = Len(y)
          /\ printed[m].cum_err
               = SquaredErrors(EpochStartWeights(e), processed[e + 1], 1)

\* a second report was made, for an epoch that follows epochs of nonzero loss
PerEpochLossWitness ==
  /\ pc = "done" /\ Len(printed) = 2
  /\ printed[1].cum_err # RZero
  /\ printed[2].cum_err # printed[1].cum_err

\* the segment of wt that a sample of task cc does not select
OtherSegment(cc, wt) == IF cc = 0 THEN UpperHalf(wt) ELSE LowerHalf(wt)

\* the step for a sample of task t leaves the other task's segment as it was
FramedStep ==
  (pc = "for_i" /\ pos' = pos + 1) =>
    OtherSegment(c[i'], w') = OtherSegment(c[i'], w)

\* while the samples taken in the current epoch are all of task t, the other
\* task's segment is still what it was when the epoch started; in a run whose
\* samples are all of task t it is still the initial zero segment
FramedSequence ==
  \A t \in Tasks :
    /\ (iter >= 0
         /\ \A a \in 1..Len(processed[iter + 1]) : c[processed[iter + 1][a]] = t)
        => OtherSegment(t, w) = OtherSegment(t, EpochStartWeights(iter))
    /\ (\A j \in 1..Len(y) : c[j] = t) => OtherSegment(t, w) = Zeros(K)

\* C14 (inactive segment is framed): the SGD step for a sample of task t
\* leaves every entry of the other task's weight segment unchanged, and
\* after a sequence of steps on task-t samples only the other segment still
\* has the value it had before the sequence.
InactiveSegmentFramed == [][FramedStep]_vars /\ []FramedSequence

\* with coupling on, a task-0 sample has just been taken first in an epoch
\* that started with both segments nonzero
InactiveSegmentFramedWitness ==
  /\ pc = "for_i" /\ pos = 1 /\ iter >= 1 /\ coupling_reg # RZero
  /\ c[i] = 0 /\ \E j \in 1..Len(y) : c[j] = 1
  /\ UpperHalf(w) # Zeros(K)
  /\ UpperHalf(w) = UpperHalf(EpochStartWeights(iter))
  /\ LowerHalf(w) # LowerHalf(EpochStartWeights(iter))

\* a call of coupled_gradient on the current weights and sample j leaves
\* both arrays as they were and returns the pair the loop works with
CallIsPure ==
  \A j \in 1..Len(y) :
    LET r == coupled_gradient_call(X[j], c[j], w, y[j], reg, coupling_reg)
    IN /\ r.w = w /\ Len(r.w) = 2 * K
       /\ r.x = X[j]
       /\ [grad |-> r.grad, err |-> r.err]
            = coupled_gradient(X[j], c[j], w, y[j], reg, coupling_reg)

\* the weights change only through `w += -learning_rate * grad`, applied to
\* the gradient of the step, and the samples never change
OnlyUpdateWrites ==
  /\ UNCHANGED <<X, c, y>>
  /\ w' # w => /\ pc = "for_i" /\ pos' = pos + 1
                /\ w' = SGDUpdate(w, learning_rate, grad')

\* C15 (gradient computer is pure): a call of coupled_gradient leaves the
\* weight vector passed to it (both segments and its length 2K) and the
\* sample unchanged, calls with equal arguments return equal (gradient,
\* error) pairs, and the weights change only through the loop's update.
GradientComputerPure == []CallIsPure /\ [][OnlyUpdateWrites]_vars

\* a sample has just been taken with both segments nonzero, and a further
\* call on the weights as they are now returns a nonzero gradient and error
GradientComputerPureWitness ==
  /\ pc = "for_i" /\ pos >= 1 /\ K = 2
  /\ LowerHalf(w) # Zeros(K) /\ UpperHalf(w) # Zeros(K)
  /\ LET r == coupled_gradient_call(X[i], c[i], w, y[i], reg, coupling_reg)
     IN r.grad # Zeros(2 * K) /\ r.err # RZero /\ r.w = w

\* learning_rate * coupling_reg, the fraction of w0 - w1 a step removes
PullFactor == RMul(learning_rate, coupling_reg)

\* C16 (coupling pulls the segments together): in a step whose sample has
\* error 0, with reg = 0 and 0 < learning_rate * coupling_reg <= 1, for a
\* sample of either task and at every index j the update does not increase
\* |w0[j] - w1[j]|, does not flip the sign of w0[j] - w1[j], and strictly
\* decreases |w0[j] - w1[j]| wherever w0[j] differs from w1[j].
CouplingPulls ==
  [][(/\ pc = "for_i" /\ pos' = pos + 1
      /\ err' = RZero /\ reg = RZero
      /\ RLess(RZero, PullFactor) /\ RLeq(PullFactor, RInt(1)))
     => \A j \in 1..K :
          LET d == RSub(w[j], w[K + j])
              dn == RSub(w'[j], w'[K + j])
          IN /\ RLeq(RAbs(dn), RAbs(d))
             /\ RMul(d, dn)[1] >= 0
             /\ d # RZero => RLess(RAbs(dn), RAbs(d))]_vars

\* after the sample with label 5, the zero-error sample of task 0 and then
\* that of task 1 have been taken, each halving a difference that is still
\* not zero
CouplingPullsWitness ==
  /\ pc = "for_i" /\ pos = 3 /\ iter = 0 /\ K = 2
  /\ processed[1] = <<1, 2, 3>>
  /\ err = RZero /\ reg = RZero /\ PullFactor = Rat(1, 4)
  /\ \A j \in 1..K : RSub(w[j], w[K + j]) # RZero

\* the samples of task t among those taken so far, epoch by epoch, in the
\* order in which the coupled loop took them
TakenOfTask(t) ==
  [e \in 1..Len(processed) |-> SelectSeq(processed[e], LAMBDA j : c[j] = t)]

\* C17 (the coupled trainer refines the independent trainer): for
\* coupling_reg = 0 the active segment of the gradient coupled_gradient
\* returns for a sample is basic_gradient's gradient on the active weights
\* and the errors are equal, so segment 0 (segment 1) of the coupled loop's
\* weights is what the independent basic_gradient loop yields from zero over
\* the task-0 (task-1) samples taken in the same relative order.
CoupledRefinesIndependent ==
  coupling_reg = RZero =>
    /\ \A j \in 1..Len(y) :
         LET r == coupled_gradient(X[j], c[j], w, y[j], reg, RZero)
             b == basic_gradient(X[j], w_seg(c[j], w), y[j], reg)
         IN w_seg(c[j], r.grad) = b.grad /\ r.err = b.err
    /\ LowerHalf(w) = independent_loop(Zeros(K), TakenOfTask(0), 1)
    /\ UpperHalf(w) = independent_loop(Zeros(K), TakenOfTask(1), 1)

\* two epochs over a sample of each task, taken in different orders, with L2
\* on and coupling off, have moved both segments
CoupledRefinesIndependentWitness ==
  /\ coupling_reg = RZero /\ reg = RInt(1) /\ pc = "done" /\ K = 2
  /\ c = <<0, 1>> /\ processed = <<<<2, 1>>, <<1, 2>>>>
  /\ LowerHalf(w) # Zeros(K) /\ UpperHalf(w) # Zeros(K)
  /\ LowerHalf(w) # UpperHalf(w)

\* C13 (epoch coverage): in every epoch each sample index is taken exactly
\* once: no index is taken twice while the epoch runs, and when the epoch
\* has ended every index 1..N has been taken.
EpochCoverage ==
  \A e \in 1..Len(processed) :
    /\ \A a, b \in 1..Len(processed[e]) :
         processed[e][a] = processed[e][b] => a = b
    /\ \A a \in 1..Len(processed[e]) : processed[e][a] \in 1..Len(y)
    /\ (e < Len(processed) \/ pc \in {"for_iter", "done"}) =>
         \A j \in 1..Len(y) : \E a \in 1..Len(processed[e]) : processed[e][a] = j

\* two epochs have ended, taken in different orders
EpochCoverageWitness ==
  /\ pc = "done" /\ Len(processed) = 2 /\ Len(y) = 2
  /\ processed[1] = <<2, 1>> /\ processed[2] = <<1, 2>>

\* C18 (snappy wrapper status checking): a wrapper that has returned a value
\* to its caller saw SNAPPY_OK from every native call it made (a status other
\* than SNAPPY_OK makes it raise), and what snappy_compress and
\* snappy_uncompress return is the first `length` bytes of the output buffer,
\* `length` being the value the native call wrote back and the buffer having
\* been sized by snappy_max_compressed_length / snappy_uncompressed_length.
SnappyStatusChecked ==
  /\ sn.outcome = "returned" =>
       \A m \in 1..Len(sn.statuses) : sn.statuses[m] = SNAPPY_OK
  /\ (sn.outcome = "returned"
       /\ sn.op \in {"snappy_compress", "snappy_uncompress"}) =>
         /\ sn.value = SubSeq(sn.buf, 1, sn.length)
         /\ Len(sn.value) = sn.length
         /\ Len(sn.buf) = sn.buf_size + 1
         /\ sn.op = "snappy_compress" =>
              sn.buf_size = snappy_max_compressed_length(Len(sn.arg))

====
